---- MODULE Spec2Model ----
(***************************************************************************)
(* Binary heap of guia-monticulos/heap/heap.go: Heap[T] with its           *)
(* comparator, Insert/upHeap, Remove/downHeap, and the derived functions   *)
(* NuevoMonticuloMaxDesdeArreglo, EnesimoMaximo and CombinarMonticulos.    *)
(*                                                                         *)
(* Go slices are 0-indexed; the model keeps Go indices in every operator   *)
(* and reads the sequence through At(els, i) == els[i + 1].                *)
(***************************************************************************)
EXTENDS Integers, Sequences, FiniteSets, TLC

\* ---------------------------------------------------------------- bounds
\* Largest element value offered to Insert (values are 0..MaxVal).
MaxVal == 2
\* Largest number of stored elements the exploration lets a heap reach.
MaxSize == 4

\* Largest number of elements of each heap handed to CombinarMonticulos.
MergeSize == 2

Vals == 0..MaxVal
\* Ranks offered to EnesimoMaximo: below, inside and above [1, Size()].
Ranks == 0..(MaxSize + 1)

\* ------------------------------------------------------------ comparators
\* The zero value of T (var element T) for T = int.
Zero == 0

\* utils.Compare as documented on the compare field: -1, 0, 1.
Compare(a, b) == IF a < b THEN -1 ELSE IF a > b THEN 1 ELSE 0

\* A caller-supplied total order for NewGenericHeap: even values first,
\* then odd values, each group in ascending order.
Key(a) == IF a % 2 = 0 THEN a ELSE a + 1000
comp(a, b) == Compare(Key(a), Key(b))

\* The compare field of a heap, held as the name of the constructor that
\* set it; Cmp applies it.
Comparators == {"NewMinHeap", "NewMaxHeap", "NewGenericHeap"}
Cmp(c, a, b) ==
  IF c = "NewMinHeap" THEN Compare(a, b)
  ELSE IF c = "NewMaxHeap" THEN Compare(b, a)
  ELSE comp(a, b)

\* ------------------------------------------------------------ the slice
At(els, i) == els[i + 1]
\* Variant: elements[i] = elements[j] alone, in place of the exchange.
SwapOverwrite(els, i, j) ==
  [k \in DOMAIN els |-> IF k = i + 1 THEN els[j + 1] ELSE els[k]]

Swap(els, i, j) ==
  [k \in DOMAIN els |-> IF k = i + 1 THEN els[j + 1]
                        ELSE IF k = j + 1 THEN els[i + 1] ELSE els[k]]
Size(els) == Len(els)
\* Variant: the slice is cut without moving the last element to index 0.
TruncateOnly(els) == [k \in 1..(Len(els) - 1) |-> els[k]]

\* m.elements[:m.Size()-1] after m.elements[0] = m.elements[m.Size()-1]
MoveLastToRoot(els) ==
  [k \in 1..(Len(els) - 1) |-> IF k = 1 THEN els[Len(els)] ELSE els[k]]

\* ------------------------------------------------------------ upHeap
\* Variant: the break test is "< 0" in place of "> 0".
RECURSIVE upHeapStopOnLess(_, _, _)
upHeapStopOnLess(c, els, i) ==
  IF i > 0
  THEN LET parent == (i - 1) \div 2 IN
       IF Cmp(c, At(els, i), At(els, parent)) < 0
       THEN els
       ELSE upHeapStopOnLess(c, Swap(els, i, parent), parent)
  ELSE els

\* Variant: "if" in place of "for": at most one swap.
upHeapOneStep(c, els, i) ==
  IF i > 0
  THEN LET parent == (i - 1) \div 2 IN
       IF Cmp(c, At(els, i), At(els, parent)) > 0
       THEN els
       ELSE Swap(els, i, parent)
  ELSE els

RECURSIVE upHeap(_, _, _)
upHeap(c, els, i) ==
  IF i > 0
  THEN LET parent == (i - 1) \div 2 IN
       IF Cmp(c, At(els, i), At(els, parent)) > 0
       THEN els
       ELSE upHeap(c, Swap(els, i, parent), parent)
  ELSE els

Insert(c, els, element) ==
  LET appended == Append(els, element) IN
  upHeap(c, appended, Len(appended) - 1)

\* ------------------------------------------------------------ downHeap
\* Variant: the right child is never looked at.
RECURSIVE downHeapLeftOnly(_, _, _)
downHeapLeftOnly(c, els, i) ==
  LET left == 2 * i + 1
      smallest == IF left < Size(els) /\ Cmp(c, At(els, left), At(els, i)) < 0
                  THEN left ELSE i
  IN IF smallest = i THEN els
     ELSE downHeapLeftOnly(c, Swap(els, i, smallest), smallest)

RECURSIVE downHeap(_, _, _)
downHeap(c, els, i) ==
  LET left == 2 * i + 1
      right == 2 * i + 2
      s1 == IF left < Size(els) /\ Cmp(c, At(els, left), At(els, i)) < 0
            THEN left ELSE i
      smallest == IF right < Size(els) /\ Cmp(c, At(els, right), At(els, s1)) < 0
                  THEN right ELSE s1
  IN IF smallest = i THEN els
     ELSE downHeap(c, Swap(els, i, smallest), smallest)

\* Variant: the slice is not shortened.
RemoveKeepsLength(c, els) ==
  IF Size(els) = 0
  THEN [element |-> Zero, err |-> TRUE, elements |-> els]
  ELSE [element |-> At(els, 0), err |-> FALSE,
        elements |-> downHeap(c, [els EXCEPT ![1] = els[Len(els)]], 0)]

\* Variant: the empty heap returns the zero value with a nil error.
RemoveEmptyNoError(c, els) ==
  IF Size(els) = 0
  THEN [element |-> Zero, err |-> FALSE, elements |-> els]
  ELSE [element |-> At(els, 0), err |-> FALSE,
        elements |-> downHeap(c, MoveLastToRoot(els), 0)]

\* Remove returns (T, error) and leaves m.elements; err is "error # nil".
Remove(c, els) ==
  IF Size(els) = 0
  THEN [element |-> Zero, err |-> TRUE, elements |-> els]
  ELSE [element |-> At(els, 0), err |-> FALSE,
        elements |-> downHeap(c, MoveLastToRoot(els), 0)]

\* ------------------------------------------------------------ loop bodies
\* One pass through the "for" of upHeap, entered with the loop variable i:
\* the slice and i after it, whether the loop is left, and the indices of
\* m.elements the pass read or wrote.
\* Variant: the break test is ">= 0": an element equal to its parent stays.
upHeapStepStopsOnTie(c, els, i) ==
  IF i > 0
  THEN LET parent == (i - 1) \div 2 IN
       IF Cmp(c, At(els, i), At(els, parent)) >= 0
       THEN [elements |-> els, i |-> i, done |-> TRUE,
             indices |-> {i, parent}]
       ELSE [elements |-> Swap(els, i, parent), i |-> parent, done |-> FALSE,
             indices |-> {i, parent}]
  ELSE [elements |-> els, i |-> i, done |-> TRUE, indices |-> {}]

\* Variant: the loop test is "i >= 0"; Go's (0 - 1) / 2 is 0.
upHeapStepLoopsAtRoot(c, els, i) ==
  IF i >= 0
  THEN LET parent == IF i = 0 THEN 0 ELSE (i - 1) \div 2 IN
       IF Cmp(c, At(els, i), At(els, parent)) > 0
       THEN [elements |-> els, i |-> i, done |-> TRUE,
             indices |-> {i, parent}]
       ELSE [elements |-> Swap(els, i, parent), i |-> parent, done |-> FALSE,
             indices |-> {i, parent}]
  ELSE [elements |-> els, i |-> i, done |-> TRUE, indices |-> {}]

upHeapStep(c, els, i) ==
  IF i > 0
  THEN LET parent == (i - 1) \div 2 IN
       IF Cmp(c, At(els, i), At(els, parent)) > 0
       THEN [elements |-> els, i |-> i, done |-> TRUE,
             indices |-> {i, parent}]
       ELSE [elements |-> Swap(els, i, parent), i |-> parent, done |-> FALSE,
             indices |-> {i, parent}]
  ELSE [elements |-> els, i |-> i, done |-> TRUE, indices |-> {}]

\* One pass through the "for" of downHeap, likewise.
\* Variant: the left child is taken when it compares "<= 0".
downHeapStepSwapsTies(c, els, i) ==
  LET left == 2 * i + 1
      right == 2 * i + 2
      s1 == IF left < Size(els) /\ Cmp(c, At(els, left), At(els, i)) <= 0
            THEN left ELSE i
      smallest == IF right < Size(els) /\ Cmp(c, At(els, right), At(els, s1)) < 0
                  THEN right ELSE s1
      reads == (IF left < Size(els) THEN {left, i} ELSE {})
               \cup (IF right < Size(els) THEN {right, s1} ELSE {})
  IN IF smallest = i
     THEN [elements |-> els, i |-> i, done |-> TRUE, indices |-> reads]
     ELSE [elements |-> Swap(els, i, smallest), i |-> smallest,
           done |-> FALSE, indices |-> reads \cup {i, smallest}]

downHeapStep(c, els, i) ==
  LET left == 2 * i + 1
      right == 2 * i + 2
      s1 == IF left < Size(els) /\ Cmp(c, At(els, left), At(els, i)) < 0
            THEN left ELSE i
      smallest == IF right < Size(els) /\ Cmp(c, At(els, right), At(els, s1)) < 0
                  THEN right ELSE s1
      reads == (IF left < Size(els) THEN {left, i} ELSE {})
               \cup (IF right < Size(els) THEN {right, s1} ELSE {})
  IN IF smallest = i
     THEN [elements |-> els, i |-> i, done |-> TRUE, indices |-> reads]
     ELSE [elements |-> Swap(els, i, smallest), i |-> smallest,
           done |-> FALSE, indices |-> reads \cup {i, smallest}]

\* -------------------------------------------------- derived functions
RECURSIVE InsertEach(_, _, _)
\* for _, element := range arr { heap.Insert(element) }
InsertEach(c, els, arr) ==
  IF arr = <<>> THEN els
  ELSE InsertEach(c, Insert(c, els, Head(arr)), Tail(arr))

\* Variant: the heap is made by NewMinHeap.
NuevoMonticuloMinDesdeArreglo(arr) ==
  [compare |-> "NewMinHeap", elements |-> InsertEach("NewMinHeap", <<>>, arr)]

NuevoMonticuloMaxDesdeArreglo(arr) ==
  [compare |-> "NewMaxHeap", elements |-> InsertEach("NewMaxHeap", <<>>, arr)]

\* Variant: the loop runs n - 1 times.
RECURSIVE RemoveLoopOffByOne(_, _, _, _, _)
RemoveLoopOffByOne(c, copia, n, maximo, done) ==
  IF done < n - 1
  THEN LET r == Remove(c, copia) IN
       IF r.err
       THEN [maximo |-> r.element, err |-> TRUE, copia |-> r.elements,
             removes |-> done + 1]
       ELSE RemoveLoopOffByOne(c, r.elements, n, r.element, done + 1)
  ELSE [maximo |-> maximo, err |-> FALSE, copia |-> copia, removes |-> done]

RECURSIVE RemoveLoop(_, _, _, _, _)
\* for i := 0; i < n; i++ { maximo, err = copiaHeap.Remove(); ... }
\* copia is copiaHeap.elements, done the number of Remove calls so far.
RemoveLoop(c, copia, n, maximo, done) ==
  IF done < n
  THEN LET r == Remove(c, copia) IN
       IF r.err
       THEN [maximo |-> r.element, err |-> TRUE, copia |-> r.elements,
             removes |-> done + 1]
       ELSE RemoveLoop(c, r.elements, n, r.element, done + 1)
  ELSE [maximo |-> maximo, err |-> FALSE, copia |-> copia, removes |-> done]

\* Variant: copiaHeap is the caller's heap itself.
EnesimoMaximoAliased(c, els, n) ==
  IF n < 1 \/ n > Size(els)
  THEN [maximo |-> Zero, err |-> TRUE, heap |-> els, removes |-> 0]
  ELSE LET l == RemoveLoop(c, els, n, Zero, 0)
       IN [maximo |-> l.maximo, err |-> l.err, heap |-> l.copia,
           removes |-> l.removes]

\* Variant: the rank test is "n < 0" in place of "n < 1".
EnesimoMaximoAllowsZero(c, els, n) ==
  IF n < 0 \/ n > Size(els)
  THEN [maximo |-> Zero, err |-> TRUE, heap |-> els, removes |-> 0]
  ELSE LET copia == [k \in 1..Len(els) |-> els[k]]
           l == RemoveLoop(c, copia, n, Zero, 0)
       IN [maximo |-> l.maximo, err |-> l.err, heap |-> els,
           removes |-> l.removes]

\* heap is the caller's heap.elements after the call: the loop works on
\* copiaHeap, whose slice is a fresh make + copy.
EnesimoMaximo(c, els, n) ==
  IF n < 1 \/ n > Size(els)
  THEN [maximo |-> Zero, err |-> TRUE, heap |-> els, removes |-> 0]
  ELSE LET copia == [k \in 1..Len(els) |-> els[k]]
           l == RemoveLoop(c, copia, n, Zero, 0)
       IN [maximo |-> l.maximo, err |-> l.err, heap |-> els,
           removes |-> l.removes]

\* ------------------------------------------------------------ merge
\* Heaps are handled through pointers (*Heap[T]): objs maps each pointer in
\* use to the heap object it points to, and a constructor call yields the
\* next unused pointer.
heap1 == 1
heap2 == 2
NewPointer(objs) == Cardinality(DOMAIN objs) + 1

\* Variant: the two branches are exchanged.
TipoCombinadoInvertido(h) ==
  IF Size(h.elements) > 1
     /\ Cmp(h.compare, At(h.elements, 0), At(h.elements, 1)) > 0
  THEN "NewMinHeap"
  ELSE "NewMaxHeap"

\* Variant: the first two elements are compared in natural order.
TipoCombinadoNatural(h) ==
  IF Size(h.elements) > 1
     /\ Compare(At(h.elements, 0), At(h.elements, 1)) > 0
  THEN "NewMaxHeap"
  ELSE "NewMinHeap"

\* The constructor CombinarMonticulos picks from heap1's first two elements.
TipoCombinado(h) ==
  IF Size(h.elements) > 1
     /\ Cmp(h.compare, At(h.elements, 0), At(h.elements, 1)) > 0
  THEN "NewMaxHeap"
  ELSE "NewMinHeap"

\* Variant: the loop over heap2.elements is missing.
CombinarMonticulosSoloHeap1(objs, p1, p2) ==
  LET c == TipoCombinado(objs[p1])
      combinedHeap == NewPointer(objs)
      els1 == InsertEach(c, <<>>, objs[p1].elements)
  IN [heaps |-> [p \in DOMAIN objs \cup {combinedHeap} |->
                   IF p = combinedHeap
                   THEN [compare |-> c, elements |-> els1]
                   ELSE objs[p]],
      combinedHeap |-> combinedHeap]

\* Variant: heap2's elements are inserted into heap1, which is returned.
CombinarMonticulosEnHeap1(objs, p1, p2) ==
  [heaps |-> [objs EXCEPT
                ![p1].elements =
                   InsertEach(objs[p1].compare, @, objs[p2].elements)],
   combinedHeap |-> p1]

\* Returns the heap objects after the call and the returned pointer.
CombinarMonticulos(objs, p1, p2) ==
  LET c == TipoCombinado(objs[p1])
      combinedHeap == NewPointer(objs)
      els1 == InsertEach(c, <<>>, objs[p1].elements)
      els2 == InsertEach(c, els1, objs[p2].elements)
  IN [heaps |-> [p \in DOMAIN objs \cup {combinedHeap} |->
                   IF p = combinedHeap
                   THEN [compare |-> c, elements |-> els2]
                   ELSE objs[p]],
      combinedHeap |-> combinedHeap]

\* ------------------------------------------------------------ state
VARIABLES
  compare,    \* the heap's compare field (a member of Comparators)
  elements,   \* the heap's elements slice
  lastOp,     \* the call that produced this state
  arg,        \* its argument (element of Insert, n of EnesimoMaximo)
  ret,        \* its returned value
  err,        \* TRUE iff it returned a non-nil error
  pre,        \* elements as they were before the call
  removes,    \* Remove calls the last EnesimoMaximo made on its copy
  phase,      \* "fill": only Inserts since construction; "drain": Inserts
              \* then only Removes; "mixed": anything else
  hist,       \* values inserted since construction (fill and drain)
  removed,    \* values returned by the Removes of the drain
  secuenciaDeInsercion, \* the insertion sequence of the test driver
  heaps,      \* merge driver: the heap object behind each pointer in use
  combinedHeap, \* merge driver: the pointer CombinarMonticulos returned
              \* (0 before the call)
  target,     \* merge driver: the receiver of the last Insert or Remove
  mphase,     \* merge driver: "build" before CombinarMonticulos, "merged"
              \* right after it, "after" once a later call was made
  pc,         \* loop model: where the running method stands: "idle" (no
              \* method running), "upHeap" or "downHeap" (at the loop head)
  index,      \* loop model: the variable i of upHeap / downHeap
  caller,     \* loop model: the function whose loop calls Insert or Remove
              \* ("" when the client calls them itself)
  todo,       \* loop model: what that loop still has to go through
  touched     \* loop model: the indices of m.elements the last step read
              \* or wrote, and Size() at that moment

heapVars == <<compare, elements, lastOp, arg, ret, err, pre, removes,
              phase, hist, removed, secuenciaDeInsercion>>
mergeVars == <<heaps, combinedHeap, target, mphase>>
loopVars == <<pc, index, caller, todo, touched>>

vars == <<compare, elements, lastOp, arg, ret, err, pre, removes,
          phase, hist, removed, secuenciaDeInsercion,
          heaps, combinedHeap, target, mphase,
          pc, index, caller, todo, touched>>

\* The loop model at rest.
NoLoop ==
  /\ pc = "idle"
  /\ index = 0
  /\ caller = ""
  /\ todo = <<>>
  /\ touched = [indices |-> {}, size |-> 0]

\* The merge driver at rest.
NoMerge ==
  /\ heaps = <<>>
  /\ combinedHeap = 0
  /\ target = 0
  /\ mphase = "build"

Fresh(c) ==
  /\ compare = c
  /\ elements = <<>>
  /\ lastOp = c
  /\ arg = 0
  /\ ret = Zero
  /\ err = FALSE
  /\ pre = <<>>
  /\ removes = 0
  /\ phase = "fill"
  /\ hist = <<>>
  /\ removed = <<>>

Init ==
  /\ \E c \in Comparators : Fresh(c)
  /\ secuenciaDeInsercion = <<>>
  /\ NoMerge
  /\ NoLoop

\* ------------------------------------------------------------ actions
\* A constructor call makes a heap that owes nothing to the one in use, so
\* the exploration replaces the heap in use only once it is empty, and
\* builds a heap from an array only in place of a heap not yet used.
New(c) ==
  /\ elements = <<>>
  /\ compare' = c
  /\ elements' = <<>>
  /\ lastOp' = c
  /\ arg' = 0
  /\ ret' = Zero
  /\ err' = FALSE
  /\ pre' = <<>>
  /\ removes' = 0
  /\ phase' = "fill"
  /\ hist' = <<>>
  /\ removed' = <<>>

NewMinHeap ==
  New("NewMinHeap") /\ UNCHANGED <<secuenciaDeInsercion, mergeVars, loopVars>>
NewMaxHeap ==
  New("NewMaxHeap") /\ UNCHANGED <<secuenciaDeInsercion, mergeVars, loopVars>>
NewGenericHeap ==
  New("NewGenericHeap") /\ UNCHANGED <<secuenciaDeInsercion, mergeVars, loopVars>>

InsertCall(element) ==
  /\ elements' = Insert(compare, elements, element)
  /\ lastOp' = "Insert"
  /\ arg' = element
  /\ ret' = Zero
  /\ err' = FALSE
  /\ pre' = elements
  /\ removes' = 0
  /\ phase' = IF phase = "fill" THEN "fill" ELSE "mixed"
  /\ hist' = IF phase = "fill" THEN Append(hist, element) ELSE <<>>
  /\ removed' = <<>>
  /\ UNCHANGED compare

RemoveCall ==
  LET r == Remove(compare, elements) IN
  /\ elements' = r.elements
  /\ lastOp' = "Remove"
  /\ arg' = 0
  /\ ret' = r.element
  /\ err' = r.err
  /\ pre' = elements
  /\ removes' = 0
  /\ phase' = IF r.err \/ phase = "mixed" THEN phase ELSE "drain"
  /\ removed' = IF ~r.err /\ phase # "mixed"
                THEN Append(removed, r.element) ELSE removed
  /\ UNCHANGED <<compare, hist>>

HeapInsert ==
  /\ Size(elements) < MaxSize
  /\ \E element \in Vals : InsertCall(element)
  /\ UNCHANGED <<secuenciaDeInsercion, mergeVars, loopVars>>

HeapRemove == RemoveCall /\ UNCHANGED <<secuenciaDeInsercion, mergeVars, loopVars>>

HeapSize ==
  /\ lastOp' = "Size"
  /\ arg' = 0
  /\ ret' = Size(elements)
  /\ err' = FALSE
  /\ pre' = elements
  /\ removes' = 0
  /\ UNCHANGED <<compare, elements, phase, hist, removed, secuenciaDeInsercion>>
  /\ UNCHANGED <<mergeVars, loopVars>>

CallEnesimoMaximo ==
  \E n \in Ranks :
    LET r == EnesimoMaximo(compare, elements, n) IN
    /\ elements' = r.heap
    /\ lastOp' = "EnesimoMaximo"
    /\ arg' = n
    /\ ret' = r.maximo
    /\ err' = r.err
    /\ pre' = elements
    /\ removes' = r.removes
    /\ UNCHANGED <<compare, phase, hist, removed, secuenciaDeInsercion>>
    /\ UNCHANGED <<mergeVars, loopVars>>

CallNuevoMonticuloMaxDesdeArreglo ==
  \E n \in 0..MaxSize : \E arr \in [1..n -> Vals] :
    LET h == NuevoMonticuloMaxDesdeArreglo(arr) IN
    /\ lastOp \in Comparators
    /\ compare' = h.compare
    /\ elements' = h.elements
    /\ lastOp' = "NuevoMonticuloMaxDesdeArreglo"
    /\ arg' = 0
    /\ ret' = Zero
    /\ err' = FALSE
    /\ pre' = <<>>
    /\ removes' = 0
    /\ phase' = "fill"
    /\ hist' = arr
    /\ removed' = <<>>
    /\ UNCHANGED <<secuenciaDeInsercion, mergeVars, loopVars>>

Next ==
  \/ NewMinHeap
  \/ NewMaxHeap
  \/ NewGenericHeap
  \/ HeapInsert
  \/ HeapRemove
  \/ HeapSize
  \/ CallEnesimoMaximo
  \/ CallNuevoMonticuloMaxDesdeArreglo

Spec == Init /\ [][Next]_vars

\* ------------------------------------------------------------ test driver
\* TestMaxHeapCrearInsertarYExtraer: a max-heap, every value of
\* secuenciaDeInsercion inserted in order, then as many Removes.
Referencia == <<44, 29, 58, 2, 98, 11, 65, 3, 68, 99>>

ordenEsperadoDespuesDeInsertar ==
  << <<44>>,
     <<44, 29>>,
     <<58, 29, 44>>,
     <<58, 29, 44, 2>>,
     <<98, 58, 44, 2, 29>>,
     <<98, 58, 44, 2, 29, 11>>,
     <<98, 58, 65, 2, 29, 11, 44>>,
     <<98, 58, 65, 3, 29, 11, 44, 2>>,
     <<98, 68, 65, 58, 29, 11, 44, 2, 3>>,
     <<99, 98, 65, 58, 68, 11, 44, 2, 3, 29>> >>

ordenEsperadoDespuesDeEliminar ==
  << <<98, 68, 65, 58, 29, 11, 44, 2, 3>>,
     <<68, 58, 65, 3, 29, 11, 44, 2>>,
     <<65, 58, 44, 3, 29, 11, 2>>,
     <<58, 29, 44, 3, 2, 11>>,
     <<44, 29, 11, 3, 2>>,
     <<29, 3, 11, 2>>,
     <<11, 3, 2>>,
     <<3, 2>>,
     <<2>>,
     <<>> >>

\* The driver is run on the reference sequence and on its rotations.
Rotate(s, k) == [i \in 1..Len(s) |-> s[((i + k - 1) % Len(s)) + 1]]
TestSequences == {Rotate(Referencia, k) : k \in 0..(Len(Referencia) - 1)}

InitTest ==
  /\ Fresh("NewMaxHeap")
  /\ secuenciaDeInsercion \in TestSequences
  /\ NoMerge
  /\ NoLoop

TestInsert ==
  /\ phase = "fill"
  /\ Len(hist) < Len(secuenciaDeInsercion)
  /\ InsertCall(secuenciaDeInsercion[Len(hist) + 1])
  /\ UNCHANGED <<secuenciaDeInsercion, mergeVars, loopVars>>

TestRemove ==
  /\ Len(hist) = Len(secuenciaDeInsercion)
  /\ Len(removed) < Len(secuenciaDeInsercion)
  /\ RemoveCall
  /\ UNCHANGED <<secuenciaDeInsercion, mergeVars, loopVars>>

NextTest == TestInsert \/ TestRemove

SpecTest == InitTest /\ [][NextTest]_vars

\* ------------------------------------------------------------ merge driver
\* heap1 and heap2 are made by any constructor and filled by any Inserts
\* and Removes; CombinarMonticulos is called on them; one more Insert or
\* Remove is then made on heap1, heap2 or the returned heap.
InitMerge ==
  /\ Fresh("NewMinHeap")
  /\ secuenciaDeInsercion = <<>>
  /\ \E c1 \in Comparators : \E c2 \in Comparators :
       heaps = [p \in {heap1, heap2} |->
                  [compare |-> IF p = heap1 THEN c1 ELSE c2, elements |-> <<>>]]
  /\ combinedHeap = 0
  /\ target = 0
  /\ mphase = "build"
  /\ NoLoop

MergeHeapInsert ==
  \E p \in DOMAIN heaps : \E element \in Vals :
    /\ \/ mphase = "build" /\ Size(heaps[p].elements) < MergeSize
       \/ mphase = "merged"
    /\ heaps' = [heaps EXCEPT
                   ![p].elements = Insert(heaps[p].compare, @, element)]
    /\ target' = p
    /\ lastOp' = "Insert"
    /\ mphase' = IF mphase = "build" THEN "build" ELSE "after"
    /\ UNCHANGED <<compare, elements, arg, ret, err, pre, removes, phase,
                   hist, removed, secuenciaDeInsercion, combinedHeap>>
    /\ UNCHANGED loopVars

MergeHeapRemove ==
  \E p \in DOMAIN heaps :
    /\ mphase \in {"build", "merged"}
    /\ heaps' = [heaps EXCEPT
                   ![p].elements = Remove(heaps[p].compare, @).elements]
    /\ target' = p
    /\ lastOp' = "Remove"
    /\ mphase' = IF mphase = "build" THEN "build" ELSE "after"
    /\ UNCHANGED <<compare, elements, arg, ret, err, pre, removes, phase,
                   hist, removed, secuenciaDeInsercion, combinedHeap>>
    /\ UNCHANGED loopVars

CallCombinarMonticulos ==
  LET r == CombinarMonticulos(heaps, heap1, heap2) IN
  /\ mphase = "build"
  /\ heaps' = r.heaps
  /\ combinedHeap' = r.combinedHeap
  /\ target' = 0
  /\ lastOp' = "CombinarMonticulos"
  /\ mphase' = "merged"
  /\ UNCHANGED <<compare, elements, arg, ret, err, pre, removes, phase,
                 hist, removed, secuenciaDeInsercion>>
  /\ UNCHANGED loopVars

NextMerge == MergeHeapInsert \/ MergeHeapRemove \/ CallCombinarMonticulos

SpecMerge == InitMerge /\ [][NextMerge]_vars

\* ------------------------------------------------------------ loop model
\* Insert and Remove run one pass of upHeap / downHeap at a time on the
\* receiver heaps[target]. The client owns the heap behind heap1 and calls
\* Insert, Remove, NuevoMonticuloMaxDesdeArreglo (whose result it takes as
\* its heap), EnesimoMaximo(heap, n) and CombinarMonticulos(heap, heap); the
\* last three work on a second heap object and call Insert or Remove on it
\* once per pass of their own loop.
LoopRanks(els) == {0, Size(els), Size(els) + 1}

InitLoop ==
  /\ Fresh("NewMinHeap")
  /\ secuenciaDeInsercion = <<>>
  /\ \E c \in Comparators :
       heaps = [p \in {heap1} |-> [compare |-> c, elements |-> <<>>]]
  /\ combinedHeap = 0
  /\ target = 0
  /\ mphase = "build"
  /\ NoLoop

\* m.elements = append(m.elements, element); m.upHeap(len(m.elements) - 1)
StartInsert(p, element) ==
  /\ heaps' = [heaps EXCEPT ![p].elements = Append(@, element)]
  /\ target' = p
  /\ lastOp' = "Insert"
  /\ arg' = element
  /\ pre' = heaps[p].elements
  /\ index' = Size(heaps[p].elements)
  /\ pc' = "upHeap"
  /\ touched' = [indices |-> {}, size |-> Size(heaps[p].elements) + 1]
  /\ UNCHANGED <<ret, err>>

\* Remove up to the call of downHeap(0), or its return on an empty heap.
StartRemove(p) ==
  LET els == heaps[p].elements IN
  /\ target' = p
  /\ lastOp' = "Remove"
  /\ pre' = els
  /\ IF Size(els) = 0
     THEN /\ ret' = Zero
          /\ err' = TRUE
          /\ pc' = "idle"
          /\ touched' = [indices |-> {}, size |-> 0]
          /\ UNCHANGED <<heaps, index>>
     ELSE /\ ret' = At(els, 0)
          /\ err' = FALSE
          /\ heaps' = [heaps EXCEPT ![p].elements = MoveLastToRoot(els)]
          /\ index' = 0
          /\ pc' = "downHeap"
          /\ touched' = [indices |-> {0, Size(els) - 1}, size |-> Size(els)]
  /\ UNCHANGED arg

LoopFrame ==
  UNCHANGED <<compare, elements, removes, phase, hist, removed,
              secuenciaDeInsercion, combinedHeap, mphase>>

LoopInsert ==
  /\ pc = "idle"
  /\ caller = ""
  /\ Size(heaps[heap1].elements) < MaxSize
  /\ \E element \in Vals : StartInsert(heap1, element)
  /\ UNCHANGED <<caller, todo>>
  /\ LoopFrame

LoopRemove ==
  /\ pc = "idle"
  /\ caller = ""
  /\ StartRemove(heap1)
  /\ UNCHANGED <<caller, todo>>
  /\ LoopFrame

UpHeapStep ==
  /\ pc = "upHeap"
  /\ LET m == heaps[target]
         r == upHeapStep(m.compare, m.elements, index)
     IN /\ heaps' = [heaps EXCEPT ![target].elements = r.elements]
        /\ index' = r.i
        /\ pc' = IF r.done THEN "idle" ELSE "upHeap"
        /\ touched' = [indices |-> r.indices, size |-> Size(m.elements)]
  /\ UNCHANGED <<lastOp, arg, ret, err, pre, target, caller, todo>>
  /\ LoopFrame

DownHeapStep ==
  /\ pc = "downHeap"
  /\ LET m == heaps[target]
         r == downHeapStep(m.compare, m.elements, index)
     IN /\ heaps' = [heaps EXCEPT ![target].elements = r.elements]
        /\ index' = r.i
        /\ pc' = IF r.done THEN "idle" ELSE "downHeap"
        /\ touched' = [indices |-> r.indices, size |-> Size(m.elements)]
  /\ UNCHANGED <<lastOp, arg, ret, err, pre, target, caller, todo>>
  /\ LoopFrame

\* The derived function starts: its heap object is made, its loop is set.
StartCaller(name, c, els, items) ==
  /\ heaps' = [p \in {heap1, NewPointer(heaps)} |->
                 IF p = heap1 THEN heaps[heap1]
                 ELSE [compare |-> c, elements |-> els]]
  /\ target' = NewPointer(heaps)
  /\ caller' = name
  /\ todo' = items
  /\ lastOp' = name
  /\ touched' = [indices |-> {}, size |-> 0]
  /\ UNCHANGED <<ret, err, pre, pc, index>>

LoopNuevoMonticuloMaxDesdeArreglo ==
  /\ pc = "idle"
  /\ caller = ""
  /\ heaps[heap1].elements = <<>>
  /\ \E arr \in UNION {[1..n -> Vals] : n \in 0..MaxSize} \cup TestSequences :
       /\ StartCaller("NuevoMonticuloMaxDesdeArreglo", "NewMaxHeap", <<>>, arr)
       /\ arg' = 0
  /\ LoopFrame

LoopEnesimoMaximo ==
  /\ pc = "idle"
  /\ caller = ""
  /\ \E n \in LoopRanks(heaps[heap1].elements) :
       /\ arg' = n
       /\ IF n < 1 \/ n > Size(heaps[heap1].elements)
          THEN /\ lastOp' = "EnesimoMaximo"
               /\ ret' = Zero
               /\ err' = TRUE
               /\ touched' = [indices |-> {}, size |-> 0]
               /\ UNCHANGED <<heaps, target, caller, todo, pre, pc, index>>
          ELSE StartCaller("EnesimoMaximo", heaps[heap1].compare,
                           heaps[heap1].elements, [k \in 1..n |-> k - 1])
  /\ LoopFrame

LoopCombinarMonticulos ==
  /\ pc = "idle"
  /\ caller = ""
  /\ StartCaller("CombinarMonticulos", TipoCombinado(heaps[heap1]), <<>>,
                 heaps[heap1].elements \o heaps[heap1].elements)
  /\ arg' = 0
  /\ LoopFrame

\* The loop of the derived function, between two calls of Insert or
\* Remove: the next pass, or the return.
CallerStep ==
  /\ pc = "idle"
  /\ caller # ""
  /\ IF todo = <<>> \/ (caller = "EnesimoMaximo" /\ lastOp = "Remove" /\ err)
     THEN /\ heaps' = [p \in {heap1} |->
                         IF caller = "NuevoMonticuloMaxDesdeArreglo"
                         THEN heaps[target] ELSE heaps[heap1]]
          /\ target' = 0
          /\ caller' = ""
          /\ todo' = <<>>
          /\ lastOp' = caller
          /\ touched' = [indices |-> {}, size |-> 0]
          /\ UNCHANGED <<arg, ret, err, pre, pc, index>>
     ELSE /\ IF caller = "EnesimoMaximo"
             THEN StartRemove(target)
             ELSE StartInsert(target, Head(todo))
          /\ todo' = Tail(todo)
          /\ UNCHANGED caller
  /\ LoopFrame

NextLoop ==
  \/ LoopInsert
  \/ LoopRemove
  \/ UpHeapStep
  \/ DownHeapStep
  \/ LoopNuevoMonticuloMaxDesdeArreglo
  \/ LoopEnesimoMaximo
  \/ LoopCombinarMonticulos
  \/ CallerStep

SpecLoop == InitLoop /\ [][NextLoop]_vars

\* A method that has started runs on: the passes of its loop and of its
\* caller's loop are taken as long as they are due.
SpecLoopFair ==
  /\ SpecLoop
  /\ WF_vars(UpHeapStep)
  /\ WF_vars(DownHeapStep)
  /\ WF_vars(CallerStep)

\* What the passes leave when Insert or Remove returns is what the
\* functions Insert and Remove above compute.
LoopModelAgrees ==
  (pc = "idle" /\ target # 0) =>
    /\ lastOp = "Insert" =>
         heaps[target].elements = Insert(heaps[target].compare, pre, arg)
    /\ lastOp = "Remove" =>
         LET r == Remove(heaps[target].compare, pre) IN
         /\ heaps[target].elements = r.elements
         /\ ret = r.element
         /\ err = r.err

\* ------------------------------------------------------------ vocabulary
Count(s, v) == Cardinality({k \in DOMAIN s : s[k] = v})
Range(s) == {s[k] : k \in DOMAIN s}
SameBag(s, t) == \A v \in Range(s) \cup Range(t) : Count(s, v) = Count(t, v)
Children(i) == {2 * i + 1, 2 * i + 2}

RECURSIVE RemoveAll(_, _)
\* The values returned by Size() successive Removes.
RemoveAll(c, els) ==
  IF els = <<>> THEN <<>>
  ELSE LET r == Remove(c, els) IN <<r.element>> \o RemoveAll(c, r.elements)

\* v is the n-th largest value of s, duplicates counted.
IsNthLargest(s, n, v) ==
  /\ v \in Range(s)
  /\ Cardinality({k \in DOMAIN s : s[k] > v}) < n
  /\ n <= Cardinality({k \in DOMAIN s : s[k] >= v})

\* The array of the tests of NuevoMonticuloMaxDesdeArreglo and EnesimoMaximo,
\* the heap built from it, and what EnesimoMaximo returns on that heap and
\* on an empty heap.
Ejemplo == <<3, 1, 6, 5, 2, 4>>
EjemploHeap == NuevoMonticuloMaxDesdeArreglo(Ejemplo).elements
EjemploEnesimo == [n \in 0..7 |-> EnesimoMaximo("NewMaxHeap", EjemploHeap, n)]
VacioEnesimo == [n \in 0..7 |-> EnesimoMaximo("NewMaxHeap", <<>>, n)]
VacioHeap == NuevoMonticuloMaxDesdeArreglo(<<>>).elements

TypeOK ==
  /\ compare \in Comparators
  /\ Len(elements) <= MaxSize
  /\ phase \in {"fill", "drain", "mixed"}

\* ------------------------------------------------------------ claims

C2_RootExtremum ==
  /\ (Size(elements) > 0 /\ compare = "NewMinHeap")
       => \A k \in DOMAIN elements : At(elements, 0) <= elements[k]
  /\ (Size(elements) > 0 /\ compare = "NewMaxHeap")
       => \A k \in DOMAIN elements : At(elements, 0) >= elements[k]
  /\ (lastOp = "Remove" /\ pre # <<>>) => (~err /\ ret = At(pre, 0))

C2_Witness ==
  /\ lastOp = "Remove"
  /\ compare = "NewMaxHeap"
  /\ Size(pre) = 4
  /\ ret = 2
  /\ At(elements, 0) = 1
  /\ At(elements, 2) = 1

\* C3: values inserted into an empty heap and then removed come out in
\* non-decreasing order from a min-heap and in non-increasing order from a
\* max-heap; what has come out together with what is still stored is the
\* multiset that was inserted, so Size() Removes return every inserted
\* value as often as it was inserted.
C3_SortedExtraction ==
  phase \in {"fill", "drain"} =>
    /\ compare = "NewMinHeap" =>
         \A k \in 1..(Len(removed) - 1) : removed[k] <= removed[k + 1]
    /\ compare = "NewMaxHeap" =>
         \A k \in 1..(Len(removed) - 1) : removed[k] >= removed[k + 1]
    /\ SameBag(removed \o elements, hist)
    /\ Len(removed) + Size(elements) = Len(hist)
    /\ elements = <<>> => SameBag(removed, hist)

C3_Witness ==
  /\ phase = "drain"
  /\ compare = "NewMaxHeap"
  /\ elements = <<>>
  /\ hist = <<1, 0, 2, 1>>
  /\ removed = <<2, 1, 1, 0>>

\* C4: a constructor yields Size() = 0, an Insert adds exactly 1 to Size(),
\* a Remove on a non-empty heap returns no error and takes exactly 1 from
\* Size(), and Size() returns the length and changes nothing.
C4_SizeAccounting ==
  [][ /\ lastOp' \in Comparators => Size(elements') = 0
      /\ lastOp' = "Insert" => Size(elements') = Size(elements) + 1
      /\ (lastOp' = "Remove" /\ Size(elements) > 0)
           => (~err' /\ Size(elements') = Size(elements) - 1)
      /\ lastOp' = "Size"
           => (ret' = Size(elements) /\ elements' = elements
               /\ compare' = compare /\ ret' >= 0) ]_vars

C4_Witness ==
  /\ lastOp = "Remove"
  /\ ~err
  /\ Size(pre) = 3
  /\ Size(elements) = 2

\* C5: a Remove on an empty heap returns the zero value and an error and
\* leaves the heap empty with its comparator; the Insert or Remove that
\* follows it acts as on a fresh heap.
C5_RemoveOnEmpty ==
  [][ /\ (lastOp' = "Remove" /\ Size(elements) = 0)
           => (ret' = Zero /\ err' /\ elements' = <<>> /\ compare' = compare)
      /\ (lastOp = "Remove" /\ err /\ lastOp' = "Insert")
           => elements' = <<arg'>>
      /\ (lastOp = "Remove" /\ err /\ lastOp' = "Remove")
           => (err' /\ elements' = <<>>) ]_vars

C5_Witness ==
  /\ lastOp = "Remove"
  /\ err
  /\ ret = Zero
  /\ elements = <<>>
  /\ Len(removed) = 2

\* C6: on the reference sequence the heap holds after the k-th Insert the
\* k-th list of ordenEsperadoDespuesDeInsertar, and the k-th Remove
\* returns the k-th of 99, 98, 68, 65, 58, 44, 29, 11, 3, 2 without error
\* and leaves the k-th list of ordenEsperadoDespuesDeEliminar.
C6_ReferenceTrace ==
  secuenciaDeInsercion = Referencia =>
    /\ (phase = "fill" /\ Len(hist) >= 1)
         => elements = ordenEsperadoDespuesDeInsertar[Len(hist)]
    /\ phase = "drain"
         => /\ elements = ordenEsperadoDespuesDeEliminar[Len(removed)]
            /\ ~err
            /\ removed = SubSeq(<<99, 98, 68, 65, 58, 44, 29, 11, 3, 2>>,
                                1, Len(removed))

C6_Witness ==
  /\ secuenciaDeInsercion = Referencia
  /\ phase = "drain"
  /\ Len(removed) = 10
  /\ ret = 2
  /\ elements = <<>>

\* C7: for 1 <= n <= Size(), EnesimoMaximo returns no error and the value
\* the n-th of n successive Removes returns; on a max-heap that is the
\* n-th largest stored value, duplicates counted (the root for n = 1), and
\* 4 for n = 3 on the max-heap built from 3, 1, 6, 5, 2, 4.
C7_EnesimoMaximoResult ==
  /\ (lastOp = "EnesimoMaximo" /\ 1 <= arg /\ arg <= Size(pre)) =>
       /\ ~err
       /\ ret = RemoveAll(compare, pre)[arg]
       /\ compare = "NewMaxHeap" => IsNthLargest(pre, arg, ret)
       /\ arg = 1 => ret = At(pre, 0)
  /\ ~EjemploEnesimo[3].err
  /\ EjemploEnesimo[3].maximo = 4

C7_Witness ==
  /\ lastOp = "EnesimoMaximo"
  /\ compare = "NewMaxHeap"
  /\ arg = 3
  /\ pre = <<2, 1, 2, 0>>
  /\ ret = 1
  /\ ~err

\* C8: whatever the rank, EnesimoMaximo leaves the caller's heap with the
\* stored sequence (hence the Size()) and the comparator it had.
C8_EnesimoMaximoNoMutation ==
  [][ lastOp' = "EnesimoMaximo"
        => (elements' = elements /\ compare' = compare) ]_vars

C8_Witness ==
  /\ lastOp = "EnesimoMaximo"
  /\ arg = 3
  /\ ~err
  /\ removes = 3
  /\ elements = pre
  /\ Size(elements) = 4

\* C9: EnesimoMaximo returns an error exactly when n < 1 or n > Size();
\* it then returns the zero value, performs no Remove and leaves the heap
\* as it was; so it does for every n on an empty heap and for n = 7 on a
\* heap of 6 elements.
C9_EnesimoMaximoRankErrors ==
  /\ lastOp = "EnesimoMaximo" =>
       /\ err <=> (arg < 1 \/ arg > Size(pre))
       /\ err => (ret = Zero /\ removes = 0 /\ elements = pre)
       /\ ~err => removes = arg
  /\ EjemploEnesimo[7].err
  /\ \A n \in 1..6 : ~EjemploEnesimo[n].err
  /\ \A n \in 0..7 : VacioEnesimo[n].err

C9_Witness ==
  /\ lastOp = "EnesimoMaximo"
  /\ err
  /\ Size(pre) = 3
  /\ arg = 4

EjemploMaxMax ==
  CombinarMonticulos(
    [p \in {heap1, heap2} |->
       [compare |-> "NewMaxHeap",
        elements |-> IF p = heap1
                     THEN InsertEach("NewMaxHeap", <<>>, <<7, 5, 3>>)
                     ELSE InsertEach("NewMaxHeap", <<>>, <<6, 4, 2>>)]],
    heap1, heap2)

\* C11 (as claimed): merging two max-heaps, the first of at least 2
\* elements, returns a max-heap: its root is the largest element of the
\* union and is >= its second stored element.
C11_MaxMergeIsMaxHeap ==
  (/\ lastOp = "CombinarMonticulos"
   /\ heaps[heap1].compare = "NewMaxHeap"
   /\ heaps[heap2].compare = "NewMaxHeap"
   /\ Size(heaps[heap1].elements) >= 2) =>
    LET r == heaps[combinedHeap] IN
    /\ r.compare = "NewMaxHeap"
    /\ \A k \in DOMAIN r.elements : At(r.elements, 0) >= r.elements[k]
    /\ At(r.elements, 0) >= At(r.elements, 1)

\* C12: merging a min-heap heap1 with any heap2, at least 2 elements in
\* total, returns a heap with the natural ascending comparator whose first
\* stored element is the minimum of the union and compares <= 0 with the
\* second.
C12_MinFirstMergeIsMinHeap ==
  (/\ lastOp = "CombinarMonticulos"
   /\ heaps[heap1].compare = "NewMinHeap"
   /\ Size(heaps[heap1].elements) + Size(heaps[heap2].elements) >= 2) =>
    LET r == heaps[combinedHeap]
        union == heaps[heap1].elements \o heaps[heap2].elements
    IN /\ r.compare = "NewMinHeap"
       /\ At(r.elements, 0) \in Range(union)
       /\ \A k \in DOMAIN union : At(r.elements, 0) <= union[k]
       /\ Compare(At(r.elements, 0), At(r.elements, 1)) <= 0

C12_Witness ==
  /\ lastOp = "CombinarMonticulos"
  /\ heaps[heap1].compare = "NewMinHeap"
  /\ heaps[heap2].compare = "NewMaxHeap"
  /\ heaps[heap1].elements = <<1, 2>>
  /\ heaps[heap2].elements = <<2, 0>>
  /\ At(heaps[combinedHeap].elements, 0) = 0

\* C13: the heap returned by CombinarMonticulos has Size() equal to the
\* sum of the inputs' sizes and holds the multiset sum of their elements.
C13_MergeIsMultisetUnion ==
  [][ lastOp' = "CombinarMonticulos" =>
        LET r == heaps'[combinedHeap']
            union == heaps[heap1].elements \o heaps[heap2].elements
        IN /\ Size(r.elements)
                = Size(heaps[heap1].elements) + Size(heaps[heap2].elements)
           /\ SameBag(r.elements, union) ]_vars

C13_Witness ==
  /\ lastOp = "CombinarMonticulos"
  /\ heaps[heap1].compare = "NewGenericHeap"
  /\ heaps[heap1].elements = <<2, 1>>
  /\ heaps[heap2].elements = <<1, 1>>
  /\ Size(heaps[combinedHeap].elements) = 4

\* C14: CombinarMonticulos leaves heap1 and heap2 as they were and returns
\* a heap that is neither of them; a later Insert or Remove on the
\* returned heap changes neither input, and one on an input does not
\* change the returned heap.
C14_MergeIndependence ==
  [][ /\ lastOp' = "CombinarMonticulos" =>
           /\ heaps'[heap1] = heaps[heap1]
           /\ heaps'[heap2] = heaps[heap2]
           /\ combinedHeap' \notin {heap1, heap2}
      /\ (mphase = "merged" /\ target' = combinedHeap) =>
           /\ heaps'[heap1] = heaps[heap1]
           /\ heaps'[heap2] = heaps[heap2]
      /\ (mphase = "merged" /\ target' \in {heap1, heap2}) =>
           /\ heaps'[combinedHeap] = heaps[combinedHeap]
           /\ \A p \in {heap1, heap2} : p # target' => heaps'[p] = heaps[p]
    ]_vars

C14_Witness ==
  /\ mphase = "after"
  /\ lastOp = "Remove"
  /\ target = combinedHeap
  /\ Size(heaps[heap1].elements) = 2
  /\ Size(heaps[heap2].elements) = 1
  /\ Size(heaps[combinedHeap].elements) = 2

RECURSIVE Ancestors(_)
\* The indices on the path from index j to the root, j included.
Ancestors(j) == IF j <= 0 THEN {0} ELSE {j} \cup Ancestors((j - 1) \div 2)

\* C16: Insert appends the element at index old Size(); the element then
\* climbs from parent to parent, past every parent it compares <= 0 with
\* (equal ones included), and stops below the first parent it compares > 0
\* with, or at index 0; the positions it passed hold what their parent
\* held, every other position holds what it held.
C16_SiftUpRule ==
  /\ [][ (pc = "idle" /\ pc' = "upHeap") =>
           /\ index' = Size(pre')
           /\ heaps'[target'].elements = Append(pre', arg') ]_vars
  /\ [](
      (lastOp = "Insert" /\ target # 0) =>
        LET c == heaps[target].compare
            els == heaps[target].elements
            n == Size(pre)
        IN /\ Size(els) = n + 1
           /\ index \in Ancestors(n)
           /\ \A k \in 0..n :
                IF k = index THEN At(els, k) = arg
                ELSE IF k \in Ancestors(n) /\ k > index
                THEN /\ At(els, k) = At(pre, (k - 1) \div 2)
                     /\ Cmp(c, arg, At(pre, (k - 1) \div 2)) <= 0
                ELSE At(els, k) = At(pre, k)
           /\ pc = "idle" =>
                \/ index = 0
                \/ Cmp(c, arg, At(els, (index - 1) \div 2)) > 0
           /\ (/\ pc = "idle"
               /\ \A a \in Ancestors(n) \ {n} : Cmp(c, arg, At(pre, a)) <= 0)
                => index = 0 )

C16_Witness ==
  /\ pc = "idle"
  /\ lastOp = "Insert"
  /\ target = heap1
  /\ heaps[heap1].compare = "NewMinHeap"
  /\ pre = <<1, 2, 2>>
  /\ arg = 1
  /\ index = 0
  /\ heaps[heap1].elements = <<1, 1, 2, 2>>

\* C17: Remove moves the last element to index 0 and shortens the slice
\* by one; each pass of downHeap then swaps the current element with a
\* child only if that child compares < 0 with it, the child taken compares
\* <= 0 with the other child and is the left one when the two tie, and the
\* loop is left exactly when no existing child compares < 0 with the
\* current element.
C17_SiftDownRule ==
  [][ /\ (pc = "idle" /\ pc' = "downHeap") =>
           LET old == heaps[target'].elements
               new == heaps'[target'].elements
           IN /\ Size(new) = Size(old) - 1
              /\ index' = 0
              /\ Size(new) > 0 => At(new, 0) = At(old, Size(old) - 1)
              /\ \A k \in 1..(Size(new) - 1) : At(new, k) = At(old, k)
      /\ pc = "downHeap" =>
           LET c == heaps[target].compare
               els == heaps[target].elements
               kids == {ch \in Children(index) : ch < Size(els)}
               less == {ch \in kids :
                          Cmp(c, At(els, ch), At(els, index)) < 0}
           IN /\ pc' = "idle" <=> less = {}
              /\ pc' = "idle" =>
                   (heaps'[target].elements = els /\ index' = index)
              /\ pc' = "downHeap" =>
                   /\ index' \in less
                   /\ \A ch \in kids :
                        Cmp(c, At(els, index'), At(els, ch)) <= 0
                   /\ (/\ Cardinality(kids) = 2
                       /\ Cmp(c, At(els, 2 * index + 1),
                              At(els, 2 * index + 2)) = 0)
                        => index' = 2 * index + 1
                   /\ heaps'[target].elements = Swap(els, index, index')
    ]_vars

C17_Witness ==
  /\ pc = "downHeap"
  /\ lastOp = "Remove"
  /\ pre = <<0, 1, 1, 2>>
  /\ index = 1
  /\ heaps[target].elements = <<1, 2, 1>>

\* C18: Insert(x) adds one occurrence of x to the stored multiset and
\* changes no other multiplicity, a successful Remove takes away one
\* occurrence of the value it returns, a failed Remove and every other call
\* leave the stored sequence as it was; so what is stored is what was
\* inserted less what was removed.
C18_MultisetConservation ==
  [][ /\ lastOp' = "Insert" =>
           \A v \in Range(elements') \cup Range(elements) :
             Count(elements', v)
               = Count(elements, v) + (IF v = arg' THEN 1 ELSE 0)
      /\ (lastOp' = "Remove" /\ ~err') =>
           \A v \in Range(elements') \cup Range(elements) :
             Count(elements', v)
               = Count(elements, v) - (IF v = ret' THEN 1 ELSE 0)
      /\ (lastOp' = "Remove" /\ err') => elements' = elements
      /\ lastOp' \in {"Size", "EnesimoMaximo"} => elements' = elements
      /\ phase' # "mixed" => SameBag(removed' \o elements', hist')
    ]_vars

C18_Witness ==
  /\ lastOp = "Remove"
  /\ ~err
  /\ phase = "mixed"
  /\ pre = <<2, 1, 2, 0>>
  /\ ret = 2
  /\ elements = <<2, 1, 0>>

\* C19: every call returns: once a method or a derived function has
\* started, it gets back to the client; a pass of upHeap that stays in the
\* loop lowers i and keeps it >= 0, one of downHeap raises i and keeps it
\* below Size(), downHeap is left when i has no child below Size(), each
\* pass of a derived function's loop shortens what it has to go through,
\* and no index outside [0, Size()) is read or written.
C19_Termination ==
  /\ (pc # "idle" \/ caller # "") ~> (pc = "idle" /\ caller = "")
  /\ [][ /\ (pc = "upHeap" /\ pc' = "upHeap") =>
              (index' < index /\ index' >= 0)
         /\ (pc = "downHeap" /\ pc' = "downHeap") =>
              (index' > index /\ index' < Size(heaps'[target].elements))
         /\ (pc = "downHeap"
             /\ 2 * index + 1 >= Size(heaps[target].elements)) =>
              pc' = "idle"
         /\ (pc = "idle" /\ caller # "" /\ caller' = caller) =>
              Len(todo') < Len(todo)
       ]_vars
  /\ [](touched.indices \subseteq 0..(touched.size - 1))

C19_Witness ==
  /\ pc = "idle"
  /\ caller = ""
  /\ lastOp = "CombinarMonticulos"
  /\ Size(heaps[heap1].elements) = 4
  /\ heaps[heap1].compare = "NewMaxHeap"
====
